---- MODULE Spec2Model ----
(***************************************************************************)
(* pace: hierarchical progress reporting.                                  *)
(*   src/src/lib.rs    StageId, ReporterData, ProgressTracker, Reporter    *)
(*   src/src/print.rs  print_reporter: bounded channel + consumer thread   *)
(* Time is discrete.  The consumer's Instant arithmetic is kept as the     *)
(* time elapsed since last_time and the time already waited inside the     *)
(* current recv_timeout call.                                              *)
(***************************************************************************)
EXTENDS Integers, Sequences, FiniteSets, TLC

\* ------------------------------------------------------------------ bounds
\* Stage ids the shared counter may hand out (ids 1..MaxStages).
MaxStages == 3
\* Events the producers may send in one run.
MaxSent == 6
\* Capacity of the channel in the model (bounded(100) in the code).
ChanCap == 2
\* Live Reporter values (a handle and its clones) per stage id.
MaxCopies == 2
\* Largest render interval handed to print_reporter under Spec.
MaxInterval == 1
\* Completed-count cap for events applied directly to a tracker.
MaxCount == 3
\* The timed scenario: render interval (0.3 * interval is 3 ticks) and events.
TimedInterval == 10
TimedSent == 2
\* Events the producers may send in the runs checked for progress.
LiveSent == 4

Threads == {"t1", "t2"}
\* (name, steps) arguments of Reporter::new and Reporter::stage.
Kinds == {[name |-> "build", steps |-> 1], [name |-> "compile", steps |-> 3]}
\* StageId(0): the virtual root, the target of the first BeginStage.
RootTarget == 0
\* StageId(1): where ProgressTracker::print starts.
PrintRoot == 1

VARIABLES
    stage_ids,   \* ReporterData.stage_ids: the next id fetch_add returns
    created,     \* Reporter::new has been entered (the Updater was moved into it)
    handles,     \* id -> number of live Reporter values bound to that id
    th,          \* per producer thread: where it is inside new() / stage()
    calls,       \* id -> the handle stage() was called on, and the number of
                 \* increment() calls made on the id's handle
    chan,        \* the bounded channel: messages sent and not yet received
    sent,        \* number of messages sent so far
    tracker,     \* the consumer's ProgressTracker: [items, children]
    cpc,         \* consumer thread position in print_reporter's loop
    interval,    \* the Duration given to print_reporter
    elapsed,     \* last_time.elapsed(), while a window is open
    delta,       \* the local `delta`
    waited,      \* time spent so far inside the current recv_timeout
    frame,       \* lines written by the last tracker.print()
    rendered,    \* tracker.print() has run at least once
    sinceRender, \* time since the last tracker.print()
    sinceFirst,  \* time since the first message was sent
    gap12        \* sinceFirst at the moment the second message was sent

vars == <<stage_ids, created, handles, th, calls, chan, sent, tracker, cpc, interval,
          elapsed, delta, waited, frame, rendered, sinceRender, sinceFirst, gap12>>

prodVars == <<stage_ids, created, handles, th, calls>>
clockVars == <<elapsed, delta, waited>>
obsVars == <<sinceRender, sinceFirst, gap12>>

Min(a, b) == IF a <= b THEN a ELSE b

\* --------------------------------------------------------- ProgressReport
BeginStage(id, name, steps) ==
    [type |-> "begin", id |-> id, name |-> name, steps |-> steps]
Progress == [type |-> "progress", id |-> 0, name |-> "", steps |-> 0]
EndStage == [type |-> "end", id |-> 0, name |-> "", steps |-> 0]

\* ------------------------------------------------------- ProgressTracker
\* ProgressTracker::default()
EmptyTracker == [items |-> <<>>, children |-> <<>>]

HasItem(tr, id) == id \in DOMAIN tr.items
HasChildren(tr, id) == id \in DOMAIN tr.children

\* HashMap::insert
Insert(m, k, v) == [x \in (DOMAIN m) \cup {k} |-> IF x = k THEN v ELSE m[x]]
\* HashMap::remove
Remove(m, k) == [x \in (DOMAIN m) \ {k} |-> m[x]]
\* the new child put at the front of the list instead of the back
PushFront(m, k, id) ==
    Insert(m, k, <<id>> \o (IF k \in DOMAIN m THEN m[k] ELSE <<>>))

\* children.entry(parent).or_default().push(id)
Push(m, k, id) ==
    Insert(m, k, Append(IF k \in DOMAIN m THEN m[k] ELSE <<>>, id))

\* UpdateBegin without `self.items.insert(id, ..)`
UpdateBeginNoRecord(tr, parent, report) ==
    [items |-> tr.items,
     children |-> Push(tr.children, parent, report.id)]

\* the BeginStage arm of ProgressTracker::update
UpdateBegin(tr, parent, report) ==
    [items |-> Insert(tr.items, report.id,
                      [parent |-> parent, total |-> report.steps,
                       count |-> 0, name |-> report.name]),
     children |-> Push(tr.children, parent, report.id)]

\* UpdateEnd without `self.children.remove(&parent)`
UpdateEndKeepsList(tr, parent) ==
    LET known == HasItem(tr, parent) /\ HasItem(tr, tr.items[parent].parent)
        p == tr.items[parent].parent
    IN [items |-> IF known
                  THEN [tr.items EXCEPT ![p].count = @ + 1]
                  ELSE tr.items,
        children |-> tr.children]

\* UpdateEnd that also deletes the ended stage's record
UpdateEndForgets(tr, parent) ==
    [items |-> Remove(tr.items, parent),
     children |-> Remove(tr.children, parent)]

\* UpdateEnd counting the ended stage's own record instead of its parent's
UpdateEndCountsSelf(tr, parent) ==
    [items |-> IF HasItem(tr, parent)
               THEN [tr.items EXCEPT ![parent].count = @ + 1]
               ELSE tr.items,
     children |-> Remove(tr.children, parent)]

\* the EndStage arm: count the parent's record up, drop the stage's child list
UpdateEnd(tr, parent) ==
    LET known == HasItem(tr, parent) /\ HasItem(tr, tr.items[parent].parent)
        p == tr.items[parent].parent
    IN [items |-> IF known
                  THEN [tr.items EXCEPT ![p].count = @ + 1]
                  ELSE tr.items,
        children |-> Remove(tr.children, parent)]

\* UpdateProgress that leaves the record alone
UpdateProgressSkips(tr, parent) == tr

\* UpdateProgress with `item.count = 1` for `item.count += 1`
UpdateProgressSets(tr, parent) ==
    [items |-> IF HasItem(tr, parent)
               THEN [tr.items EXCEPT ![parent].count = 1]
               ELSE tr.items,
     children |-> tr.children]

\* the Progress arm
UpdateProgress(tr, parent) ==
    [items |-> IF HasItem(tr, parent)
               THEN [tr.items EXCEPT ![parent].count = @ + 1]
               ELSE tr.items,
     children |-> tr.children]

\* ProgressTracker::update(parent, report)
Update(tr, parent, report) ==
    CASE report.type = "begin" -> UpdateBegin(tr, parent, report)
      [] report.type = "end" -> UpdateEnd(tr, parent)
      [] report.type = "progress" -> UpdateProgress(tr, parent)

\* println!("{}{}  {}/{}", Indent(level), item.name, item.count, item.total):
\* Indent writes two spaces per level.
Line(level, item) ==
    [indent |-> 2 * level, name |-> item.name,
     count |-> item.count, total |-> item.total]

RECURSIVE print_item(_, _, _)
RECURSIVE print_children(_, _, _)
\* ProgressTracker::print_item: the (id, level) pairs it prints a line for, in order
print_item(tr, id, level) ==
    IF HasItem(tr, id)
    THEN <<[id |-> id, level |-> level]>>
         \o print_children(tr, IF HasChildren(tr, id) THEN tr.children[id] ELSE <<>>,
                           level + 1)
    ELSE <<>>
\* the loop running over the child list from its last entry to its first
print_children_rev(tr, cs, level) ==
    IF cs = <<>> THEN <<>>
    ELSE print_children(tr, Tail(cs), level) \o print_item(tr, Head(cs), level)

\* the loop over self.children.get(&id) inside print_item
print_children(tr, cs, level) ==
    IF cs = <<>> THEN <<>>
    ELSE print_item(tr, Head(cs), level) \o print_children(tr, Tail(cs), level)

\* ProgressTracker::print: the lines written
print(tr) ==
    LET v == print_item(tr, PrintRoot, 0)
    IN [i \in 1..Len(v) |-> Line(v[i].level, tr.items[v[i].id])]

\* ---------------------------------------------------------- ReporterData
\* make_id as a plain load: the counter is read and never advanced
make_id_load(counter) == [id |-> counter, next |-> counter]

\* make_id returning the value after the addition instead of the one before
make_id_after(counter) == [id |-> counter + 1, next |-> counter + 1]

\* make_id: fetch_add(1) returns the old value and stores old + 1
make_id(counter) == [id |-> counter, next |-> counter + 1]

\* a channel that never makes a sender wait
CanSendAlways == TRUE

\* Sender::send on the bounded channel: FIFO, blocks while full
CanSend == Len(chan) < ChanCap
send_front(ch, target, report) == <<[target |-> target, report |-> report]>> \o ch
send(ch, target, report) == Append(ch, [target |-> target, report |-> report])

\* every Reporter value holds the Arc; the Sender dies with the last of them
LiveHandles == {id \in DOMAIN handles : handles[id] > 0}
Borrowed(id) == \E t \in Threads : th[t].pc = "stage_report" /\ th[t].self = id
CopiesAlive ==
    LET RECURSIVE Sum(_)
        Sum(S) == IF S = {} THEN 0
                  ELSE LET x == CHOOSE y \in S : TRUE
                       IN handles[x] + Sum(S \ {x})
    IN Sum(DOMAIN handles)
InCall == Cardinality({t \in Threads : th[t].pc # "idle"})
Disconnected == created /\ CopiesAlive = 0 /\ InCall = 0

\* Sends still owed: one EndStage per live Reporter value, and for a thread
\* inside new()/stage() its BeginStage and the EndStage of the handle it returns.
Owed == CopiesAlive + 2 * InCall
\* room for one more optional send
Room(extra) == sent + Owed + extra <= MaxSent

Idle == [pc |-> "idle", self |-> 0, id |-> 0]

\* bookkeeping of a send, for the timing observations
Sent ==
    /\ sent' = sent + 1
    /\ sinceFirst' = IF sent = 0 THEN 0 ELSE sinceFirst
    /\ gap12' = IF sent = 1 THEN sinceFirst ELSE gap12

\* ------------------------------------------------------------- Reporter
\* Reporter::new, first half: Arc::new(ReporterData{stage_ids: 1, ..}); make_id()
NewMakeId(t) ==
    /\ ~created
    /\ th[t].pc = "idle"
    /\ created' = TRUE
    /\ stage_ids' = make_id(stage_ids).next
    /\ th' = [th EXCEPT ![t] = [pc |-> "new_report", self |-> RootTarget,
                                id |-> make_id(stage_ids).id]]
    /\ UNCHANGED <<handles, calls, chan, sent, tracker, cpc, interval, clockVars,
                   frame, rendered, obsVars>>

\* Reporter::new, second half: report(StageId(0), BeginStage{..}); return handle
NewReport(t) ==
    /\ th[t].pc = "new_report"
    /\ CanSend
    /\ \E k \in Kinds :
         chan' = send(chan, RootTarget, BeginStage(th[t].id, k.name, k.steps))
    /\ Sent
    /\ handles' = Insert(handles, th[t].id, 1)
    /\ calls' = Insert(calls, th[t].id, [by |-> th[t].self, incs |-> 0])
    /\ th' = [th EXCEPT ![t] = Idle]
    /\ UNCHANGED <<stage_ids, created, tracker, cpc, interval, clockVars,
                   frame, rendered, sinceRender>>

\* Reporter::stage, first half: self.shared.make_id()
StageMakeId(t, h) ==
    /\ th[t].pc = "idle"
    /\ h \in LiveHandles
    /\ stage_ids <= MaxStages
    /\ Room(2)
    /\ stage_ids' = make_id(stage_ids).next
    /\ th' = [th EXCEPT ![t] = [pc |-> "stage_report", self |-> h,
                                id |-> make_id(stage_ids).id]]
    /\ UNCHANGED <<created, handles, calls, chan, sent, tracker, cpc, interval,
                   clockVars, frame, rendered, obsVars>>

\* Reporter::stage, second half: report(self.id, BeginStage{..}); return handle
StageReport(t) ==
    /\ th[t].pc = "stage_report"
    /\ CanSend
    /\ \E k \in Kinds :
         chan' = send(chan, th[t].self, BeginStage(th[t].id, k.name, k.steps))
    /\ Sent
    /\ handles' = Insert(handles, th[t].id, 1)
    /\ calls' = Insert(calls, th[t].id, [by |-> th[t].self, incs |-> 0])
    /\ th' = [th EXCEPT ![t] = Idle]
    /\ UNCHANGED <<stage_ids, created, tracker, cpc, interval, clockVars,
                   frame, rendered, sinceRender>>

\* Reporter::increment
Increment(t, h) ==
    /\ th[t].pc = "idle"
    /\ h \in LiveHandles
    /\ Room(1)
    /\ CanSend
    /\ chan' = send(chan, h, Progress)
    /\ Sent
    /\ calls' = [calls EXCEPT ![h].incs = @ + 1]
    /\ UNCHANGED <<stage_ids, created, handles, th, tracker, cpc, interval,
                   clockVars, frame, rendered, sinceRender>>

\* #[derive(Clone)] on Reporter: a second Reporter value with the same id
Clone(t, h) ==
    /\ th[t].pc = "idle"
    /\ h \in LiveHandles
    /\ handles[h] < MaxCopies
    /\ Room(1)
    /\ handles' = [handles EXCEPT ![h] = @ + 1]
    /\ UNCHANGED <<stage_ids, created, th, calls, chan, sent, tracker, cpc,
                   interval, clockVars, frame, rendered, obsVars>>

\* impl Drop for Reporter: report(self.id, EndStage), then the fields go
Drop(t, h) ==
    /\ th[t].pc = "idle"
    /\ h \in LiveHandles
    /\ handles[h] > 1 \/ ~Borrowed(h)
    /\ CanSend
    /\ chan' = send(chan, h, EndStage)
    /\ Sent
    /\ handles' = [handles EXCEPT ![h] = @ - 1]
    /\ UNCHANGED <<stage_ids, created, th, calls, tracker, cpc, interval,
                   clockVars, frame, rendered, sinceRender>>

\* a client that never clones a handle
ProducerPlain ==
    \E t \in Threads :
        \/ NewMakeId(t)
        \/ NewReport(t)
        \/ StageReport(t)
        \/ \E h \in 1..MaxStages :
              \/ StageMakeId(t, h)
              \/ Increment(t, h)
              \/ Drop(t, h)

Producer ==
    \/ ProducerPlain
    \/ \E t \in Threads, h \in 1..MaxStages : Clone(t, h)

\* ------------------------------------------------- print_reporter consumer
\* line 15: tracker.print()
Render ==
    /\ cpc = "print"
    /\ frame' = print(tracker)
    /\ rendered' = TRUE
    /\ sinceRender' = 0
    /\ cpc' = "recv"
    /\ UNCHANGED <<prodVars, chan, sent, tracker, interval, clockVars,
                   sinceFirst, gap12>>

\* lines 17-24: rx.recv() got a message; last_time = now; delta = ZERO
Recv ==
    /\ cpc = "recv"
    /\ chan # <<>>
    /\ tracker' = Update(tracker, Head(chan).target, Head(chan).report)
    /\ chan' = Tail(chan)
    /\ elapsed' = 0
    /\ delta' = 0
    /\ waited' = 0
    /\ cpc' = "recv_timeout"
    /\ UNCHANGED <<prodVars, sent, interval, frame, rendered, obsVars>>

\* rx.recv() failing as soon as the channel is empty, Senders or not
RecvClosedEarly ==
    /\ cpc = "recv"
    /\ chan = <<>>
    /\ cpc' = "done"
    /\ UNCHANGED <<prodVars, chan, sent, tracker, interval, clockVars,
                   frame, rendered, obsVars>>

\* lines 17-19: rx.recv() fails: channel empty and every Sender gone
RecvClosed ==
    /\ cpc = "recv"
    /\ chan = <<>>
    /\ Disconnected
    /\ cpc' = "done"
    /\ UNCHANGED <<prodVars, chan, sent, tracker, interval, clockVars,
                   frame, rendered, obsVars>>

\* lines 26-29: rx.recv_timeout(delta) returns a message
RecvMore ==
    /\ cpc = "recv_timeout"
    /\ chan # <<>>
    /\ tracker' = Update(tracker, Head(chan).target, Head(chan).report)
    /\ chan' = Tail(chan)
    /\ cpc' = "elapsed"
    /\ UNCHANGED <<prodVars, sent, interval, clockVars, frame, rendered, obsVars>>

\* line 30: Err(Timeout): nothing arrived for `delta`
Timeout ==
    /\ cpc = "recv_timeout"
    /\ chan = <<>>
    /\ ~Disconnected
    /\ waited >= delta
    /\ cpc' = "print"
    /\ UNCHANGED <<prodVars, chan, sent, tracker, interval, clockVars,
                   frame, rendered, obsVars>>

\* recv_timeout reporting Disconnected while messages are still buffered
TimeoutClosedLossy ==
    /\ cpc = "recv_timeout"
    /\ Disconnected
    /\ cpc' = "done"
    /\ UNCHANGED <<prodVars, chan, sent, tracker, interval, clockVars,
                   frame, rendered, obsVars>>

\* line 31: Err(Disconnected): break 'outer
TimeoutClosed ==
    /\ cpc = "recv_timeout"
    /\ chan = <<>>
    /\ Disconnected
    /\ cpc' = "done"
    /\ UNCHANGED <<prodVars, chan, sent, tracker, interval, clockVars,
                   frame, rendered, obsVars>>

\* lines 33-36: delta = last_time.elapsed(); if delta >= interval { break }
ReadElapsed ==
    /\ cpc = "elapsed"
    /\ delta' = elapsed
    /\ waited' = 0
    /\ cpc' = IF elapsed >= interval THEN "print" ELSE "recv_timeout"
    /\ UNCHANGED <<prodVars, chan, sent, tracker, interval, elapsed,
                   frame, rendered, obsVars>>

Consumer ==
    \/ Render
    \/ Recv
    \/ RecvClosed
    \/ RecvMore
    \/ Timeout
    \/ TimeoutClosed
    \/ ReadElapsed

\* ------------------------------------------------------------------ time
\* The consumer sits in recv_timeout with nothing to receive and time left.
Waiting == cpc = "recv_timeout" /\ chan = <<>> /\ ~Disconnected /\ waited < delta
\* Time passes while tracker.update runs (before last_time.elapsed() is read).
Working == cpc = "elapsed" /\ elapsed < interval

\* The consumer sits in rx.recv() with nothing to receive.
Blocked == cpc = "recv" /\ chan = <<>> /\ ~Disconnected

\* One unit of time passes.  The consumer never dawdles: time passes only while
\* it is blocked in a receive or busy applying an event.
Clock ==
    /\ Blocked \/ Waiting \/ Working
    /\ elapsed' = IF Waiting \/ Working THEN elapsed + 1 ELSE elapsed
    /\ waited' = IF Waiting THEN waited + 1 ELSE waited
    /\ UNCHANGED <<prodVars, chan, sent, tracker, cpc, interval, delta,
                   frame, rendered, gap12>>

\* Time as the consumer reads it; the stop-watches of the timing properties rest.
Tick ==
    /\ Waiting \/ Working
    /\ Clock
    /\ UNCHANGED <<sinceRender, sinceFirst>>

\* Time with the stop-watches running (each stops at the value it is compared to).
TickObserved ==
    /\ Clock
    /\ sinceRender' = IF rendered THEN Min(sinceRender + 1, interval) ELSE sinceRender
    /\ sinceFirst' = IF sent > 0 THEN Min(sinceFirst + 1, interval + 1) ELSE sinceFirst
    /\ <<elapsed', waited', sinceRender', sinceFirst'>>
         # <<elapsed, waited, sinceRender, sinceFirst>>

\* ------------------------------------------------------- specifications
InitWith(iv) ==
    /\ stage_ids = 1
    /\ created = FALSE
    /\ handles = <<>>
    /\ th = [t \in Threads |-> Idle]
    /\ calls = <<>>
    /\ chan = <<>>
    /\ sent = 0
    /\ tracker = EmptyTracker
    /\ cpc = "print"
    /\ interval = iv
    /\ elapsed = 0
    /\ delta = 0
    /\ waited = 0
    /\ frame = <<>>
    /\ rendered = FALSE
    /\ sinceRender = 0
    /\ sinceFirst = 0
    /\ gap12 = 0

Init == \E iv \in 0..MaxInterval : InitWith(iv)

Next ==
    \/ Producer
    \/ Consumer
    \/ Tick

Spec == Init /\ [][Next]_vars

\* A client that owns a ProgressTracker and calls update itself (both are pub).
\* Stage ids are distinct, as make_id hands them out; the first id is the stage
\* Reporter::new begins under the virtual root, every other stage is begun
\* under a stage already begun.  `sent` counts the events.
DirectBegin(parent, id, k) ==
    /\ sent < MaxSent
    /\ sent' = sent + 1
    /\ ~HasItem(tracker, id)
    /\ IF id = PrintRoot THEN parent = RootTarget ELSE HasItem(tracker, parent)
    /\ tracker' = Update(tracker, parent, BeginStage(id, k.name, k.steps))
    /\ UNCHANGED <<prodVars, chan, cpc, interval, clockVars, frame,
                   rendered, obsVars>>

DirectProgress(target) ==
    /\ sent < MaxSent
    /\ sent' = sent + 1
    /\ target = RootTarget \/ HasItem(tracker, target)
    /\ HasItem(tracker, target) => tracker.items[target].count < MaxCount
    /\ tracker' = Update(tracker, target, Progress)
    /\ UNCHANGED <<prodVars, chan, cpc, interval, clockVars, frame,
                   rendered, obsVars>>

DirectEnd(target) ==
    /\ sent < MaxSent
    /\ sent' = sent + 1
    /\ target = RootTarget \/ HasItem(tracker, target)
    /\ \A p \in DOMAIN tracker.items : tracker.items[p].count < MaxCount
    /\ tracker' = Update(tracker, target, EndStage)
    /\ UNCHANGED <<prodVars, chan, cpc, interval, clockVars, frame,
                   rendered, obsVars>>

InitTracker == InitWith(0)

NextTracker ==
    \/ \E target \in 0..MaxStages : DirectEnd(target)
    \/ \E target \in 0..MaxStages : DirectProgress(target)
    \/ \E parent \in 0..MaxStages, id \in 1..MaxStages, k \in Kinds :
          DirectBegin(parent, id, k)

SpecTracker == InitTracker /\ [][NextTracker]_vars

\* The consumer thread keeps running and time keeps passing.
NextLive ==
    \/ sent < LiveSent /\ Producer
    \/ Consumer
    \/ Tick

SpecLive == Init /\ [][NextLive]_vars /\ WF_vars(Consumer) /\ WF_vars(Tick)

\* Clients that never clone a handle.
NextPlain ==
    \/ ProducerPlain
    \/ Consumer
    \/ Tick

SpecPlain == Init /\ [][NextPlain]_vars

\* The timed runs: one interval of ten ticks, a few events, stop-watches on.
InitTimed == InitWith(TimedInterval)

NextTimed ==
    \/ sent < TimedSent /\ Producer
    \/ Consumer
    \/ TickObserved

SpecTimed == InitTimed /\ [][NextTimed]_vars

\* ================================================================ claims
Targets == 0..(MaxStages + 1)
Stages == 1..MaxStages

\* ids ProgressTracker::print writes a line for
Visited(tr) ==
    LET v == print_item(tr, PrintRoot, 0) IN {v[i].id : i \in 1..Len(v)}

RECURSIVE Below(_, _, _, _)
\* id lies strictly below stage T along the recorded parent links
Below(tr, id, T, fuel) ==
    /\ fuel > 0
    /\ HasItem(tr, id)
    /\ \/ tr.items[id].parent = T
       \/ Below(tr, tr.items[id].parent, T, fuel - 1)

InList(tr, P, T) ==
    HasChildren(tr, P) /\ \E i \in 1..Len(tr.children[P]) : tr.children[P][i] = T

\* new(1, "build"); stage(3, "compile"); three increment(): the tracker just
\* before the child's EndStage is applied
ScenarioBefore ==
    tracker =
      [items |-> (1 :> [parent |-> 0, total |-> 1, count |-> 0, name |-> "build"])
                 @@ (2 :> [parent |-> 1, total |-> 3, count |-> 3, name |-> "compile"]),
       children |-> (0 :> <<1>>) @@ (1 :> <<2>>)]

BuildDone == [indent |-> 0, name |-> "build", count |-> 1, total |-> 1]
CompileDone == [indent |-> 2, name |-> "compile", count |-> 3, total |-> 3]

\* the step applies update(T, EndStage) to a stage T that has a record
EndApplied(T) == HasItem(tracker, T) /\ tracker' = Update(tracker, T, EndStage)

\* C1 as stated: once update(T, EndStage) is applied to a stage T whose parent P
\* has a record, T is gone from P's child list, the next render prints neither
\* T's line nor a line of T's subtree, T's record is kept, and the scenario
\* renders the single line `build  1/1`.
C1_PrunedFromParent ==
    [][\A T \in Stages :
         (EndApplied(T) /\ HasItem(tracker, tracker.items[T].parent)) =>
            /\ ~InList(tracker', tracker.items[T].parent, T)
            /\ T \notin Visited(tracker')
            /\ \A id \in Visited(tracker') : ~Below(tracker, id, T, MaxStages)
            /\ HasItem(tracker', T)
            /\ (ScenarioBefore /\ T = 2) => print(tracker') = <<BuildDone>>]_vars

\* C1 amended: once update(T, EndStage) is applied, T is no key of the children
\* mapping, every other child list (the parent's, still naming T) is as before,
\* the next render prints no line of T's strict subtree and prints T's own line
\* exactly if it was printed before, every record is kept, and the scenario
\* renders `build  1/1` followed by `  compile  3/3`.
C1_SubtreeCollapsed ==
    [][\A T \in Stages :
         EndApplied(T) =>
            /\ ~HasChildren(tracker', T)
            /\ \A k \in DOMAIN tracker.children \ {T} :
                  HasChildren(tracker', k) /\ tracker'.children[k] = tracker.children[k]
            /\ \A id \in Visited(tracker') : ~Below(tracker, id, T, MaxStages)
            /\ (T \in Visited(tracker')) = (T \in Visited(tracker))
            /\ DOMAIN tracker'.items = DOMAIN tracker.items
            /\ (ScenarioBefore /\ T = 2) =>
                  print(tracker') = <<BuildDone, CompileDone>>]_vars

\* C1 witness: an ended stage T with a recorded parent and a child of its own:
\* the child's record names T, T's child list is gone, T is still printed.
C1_Witness ==
    \E T \in Stages, c \in Stages :
        /\ HasItem(tracker, T) /\ HasItem(tracker, c)
        /\ tracker.items[c].parent = T
        /\ HasItem(tracker, tracker.items[T].parent)
        /\ ~HasChildren(tracker, T)
        /\ T \in Visited(tracker)

\* C6 as stated: in every tracker state, for every id T without a record,
\* update(T, StepCompleted) and update(T, EndStage) leave the tracker unchanged.
C6_UnknownTargetIgnored ==
    \A T \in Targets :
        ~HasItem(tracker, T) =>
            /\ Update(tracker, T, Progress) = tracker
            /\ Update(tracker, T, EndStage) = tracker
\* the step sends a message (the last one of chan')
Sends == sent' = sent + 1 /\ Len(chan') = Len(chan) + 1
LastSent == chan'[Len(chan')]

\* C2 as stated: EndStage for a stage id is emitted when every Reporter value
\* bound to that id is gone, so once per stage id and not once per clone.
C2_EndWhenAllClonesGone ==
    [][(Sends /\ LastSent.report.type = "end") => handles'[LastSent.target] = 0]_vars

\* C3 as stated: with E1 sent at t = 0 and E2 at t = 0.3 * interval and nothing
\* else, the consumer has rendered before it receives anything, E2 finds the
\* consumer still inside the window E1 opened (no render in between), and the
\* render after both comes at a time t with 0.3 * interval <= t <= interval.
C3_Coalesced ==
    (sent = 2 /\ 10 * gap12 = 3 * interval) =>
        /\ Len(chan) < 2 => rendered
        /\ Len(chan) = 1 => cpc \in {"recv_timeout", "elapsed"}
        /\ (chan = <<>> /\ cpc = "print") =>
              (3 * interval <= 10 * sinceFirst /\ sinceFirst <= interval)

\* C4 as stated: inside a window a receive never waits past `interval` after the
\* window start (it waits at most interval - elapsed), so the render that closes
\* the window comes at most `interval` after the window start.
C4_BoundedLatency ==
    /\ cpc = "recv_timeout" => elapsed + (delta - waited) <= interval
    /\ cpc = "print" => elapsed <= interval

\* C5 as stated: while events keep arriving less than `interval` apart, a render
\* that follows an applied event comes at least `interval` after the render
\* before it.
C5_RenderFrequency ==
    (cpc = "print" /\ rendered /\ sent >= 2 /\ gap12 > 0 /\ gap12 < interval) =>
        sinceRender >= interval

\* C7: every message in the channel that targets a stage id (any event but the
\* root's BeginStage) finds that id's BeginStage already applied by the consumer
\* or ahead of it in the channel.
C7_BeginFirst ==
    \A i \in 1..Len(chan) :
        \/ chan[i].target = RootTarget
        \/ HasItem(tracker, chan[i].target)
        \/ \E j \in 1..(i - 1) :
              chan[j].report.type = "begin" /\ chan[j].report.id = chan[i].target

\* C7 witness: a message whose stage's BeginStage is still ahead of it in the
\* channel, not yet seen by the consumer.
C7_Witness ==
    \E i \in 1..Len(chan) :
        chan[i].target # RootTarget /\ ~HasItem(tracker, chan[i].target)

Known(tr, id) == id = RootTarget \/ HasItem(tr, id)

\* C8: every key of the children mapping, every id inside a child list and every
\* parent field is the virtual root 0 or an id with a record; 0 has no record.
C8_TreeConsistent ==
    /\ \A k \in DOMAIN tracker.children :
          /\ Known(tracker, k)
          /\ \A i \in 1..Len(tracker.children[k]) : Known(tracker, tracker.children[k][i])
    /\ \A id \in DOMAIN tracker.items : Known(tracker, tracker.items[id].parent)
    /\ ~HasItem(tracker, RootTarget)

\* C8 witness: a three-level tree in which a stage with a child has ended.
C8_Witness ==
    \E T \in Stages, c \in Stages :
        /\ HasItem(tracker, T) /\ HasItem(tracker, c)
        /\ tracker.items[c].parent = T
        /\ tracker.items[T].parent # RootTarget
        /\ ~HasChildren(tracker, T)

\* what one applied message adds to the count of record `id`
CountStep(id, m) ==
    (IF m.report.type = "progress" /\ m.target = id THEN 1 ELSE 0)
    + (IF /\ m.report.type = "end"
          /\ HasItem(tracker, m.target)
          /\ tracker.items[m.target].parent = id
       THEN 1 ELSE 0)

\* C9: a record's count never decreases; the consumer applying a message adds
\* exactly 1 for a StepCompleted targeting the record's stage, exactly 1 for an
\* EndStage of a stage whose recorded parent it is, and nothing otherwise; no
\* other step changes any record.
C9_CountMonotone ==
    [][/\ \A id \in DOMAIN tracker.items :
            /\ HasItem(tracker', id)
            /\ tracker'.items[id].count >= tracker.items[id].count
            /\ Len(chan') < Len(chan) =>
                  tracker'.items[id].count
                    = tracker.items[id].count + CountStep(id, Head(chan))
       /\ Len(chan') >= Len(chan) => tracker' = tracker]_vars

\* C9 witness: a record counted up twice, with a child record under it.
C9_Witness ==
    \E p \in Stages, c \in Stages :
        /\ HasItem(tracker, p) /\ HasItem(tracker, c)
        /\ tracker.items[c].parent = p
        /\ tracker.items[p].count >= 2

\* ids handed out so far: to a call still in progress, or bound to a handle
InFlight == {t \in Threads : th[t].pc # "idle"}

\* C10: the ids make_id has returned are pairwise distinct: two calls in progress
\* hold different ids, a call in progress holds an id no handle was ever bound
\* to, and every id handed out is below the counter.
C10_IdsUnique ==
    /\ \A t \in InFlight, u \in InFlight : t # u => th[t].id # th[u].id
    /\ \A t \in InFlight : th[t].id \notin DOMAIN handles /\ th[t].id < stage_ids
    /\ \A id \in DOMAIN handles : id < stage_ids

\* C10 witness: two threads are between make_id and report at the same time.
C10_Witness ==
    \A t \in Threads : th[t].pc = "stage_report"

\* a step that takes a message out of the channel takes the oldest one and
\* applies it to the tracker
HeadApplied ==
    /\ chan' = Tail(chan)
    /\ tracker' = Update(tracker, Head(chan).target, Head(chan).report)

\* C11: the consumer terminates only when every Sender is gone and nothing is
\* buffered; a message leaves the channel only by being applied to the tracker
\* (none is discarded); and once every Sender is gone the consumer eventually
\* terminates.
C11_GracefulShutdown ==
    /\ [](cpc = "done" => (Disconnected /\ chan = <<>>))
    /\ [][Len(chan') < Len(chan) => HeadApplied]_vars
    /\ (Disconnected ~> cpc = "done")

\* C11 witness: the consumer has terminated after a run in which several events
\* were sent and two stages recorded.
C11_Witness ==
    /\ cpc = "done"
    /\ sent >= 4
    /\ Cardinality(DOMAIN tracker.items) >= 2

\* C12: the channel never holds more than its capacity; a send happens only
\* while there is room (a producer finding the channel full waits) and puts
\* exactly its one message at the back; a message leaves only from the front,
\* by being applied to the tracker; nothing else touches channel or tracker.  So
\* every sent message is applied exactly once, in the order sent.
C12_Backpressure ==
    /\ [](Len(chan) <= ChanCap)
    /\ [][\/ /\ sent' = sent + 1
              /\ Len(chan) < ChanCap
              /\ Len(chan') = Len(chan) + 1
              /\ SubSeq(chan', 1, Len(chan)) = chan
              /\ tracker' = tracker
           \/ /\ sent' = sent
              /\ chan # <<>>
              /\ HeadApplied
           \/ /\ sent' = sent
              /\ chan' = chan
              /\ tracker' = tracker]_vars

\* C12 witness: the channel is full while a thread inside stage() has its
\* BeginStage still to send.
C12_Witness ==
    /\ Len(chan) = ChanCap
    /\ \E t \in Threads : th[t].pc = "stage_report"
    /\ sent >= 3

\* C13: the id Reporter::new holds is 1, the id print starts from; the first
\* message on the channel is that stage's BeginStage with target 0; and 0 is
\* never handed out: no call holds it, no handle is bound to it, no BeginStage
\* carries it and it has no record.
C13_RootAllocation ==
    /\ [](\A t \in Threads : th[t].pc = "new_report" => th[t].id = PrintRoot)
    /\ [](\A t \in InFlight : th[t].id # RootTarget)
    /\ [](RootTarget \notin DOMAIN handles /\ ~HasItem(tracker, RootTarget))
    /\ [](\A i \in 1..Len(chan) :
            chan[i].report.type = "begin" =>
                /\ chan[i].report.id # RootTarget
                /\ (chan[i].target = RootTarget <=> chan[i].report.id = PrintRoot))
    /\ [][(sent = 0 /\ sent' = 1) =>
            /\ LastSent.target = RootTarget
            /\ LastSent.report.type = "begin"
            /\ LastSent.report.id = PrintRoot]_vars

\* C13 witness: the root stage is recorded under the virtual root, a render has
\* started from it, and further ids have been handed out.
C13_Witness ==
    /\ HasItem(tracker, PrintRoot)
    /\ tracker.items[PrintRoot].parent = RootTarget
    /\ Len(frame) >= 1
    /\ stage_ids > 2

\* the consumer takes a message of the given type out of the channel
Applies(type) == Len(chan') < Len(chan) /\ Head(chan).report.type = type

\* C14: when the consumer applies EndStage for a stage T that has a record, the
\* record of T's parent P, if P has one, is counted up by exactly 1, the key T
\* is gone from the children mapping, and nothing else changes: every other
\* record (T's own too) and every other child list is as before and no record is
\* removed; if P has no record (the virtual root) no record changes at all.
C14_EndStageFrame ==
    [][(Applies("end") /\ HasItem(tracker, Head(chan).target)) =>
         LET T == Head(chan).target
             P == tracker.items[T].parent
         IN /\ DOMAIN tracker'.items = DOMAIN tracker.items
            /\ HasItem(tracker, P) =>
                  tracker'.items[P] = [tracker.items[P] EXCEPT !.count = @ + 1]
            /\ \A id \in DOMAIN tracker.items \ {P} :
                  tracker'.items[id] = tracker.items[id]
            /\ DOMAIN tracker'.children = DOMAIN tracker.children \ {T}
            /\ \A k \in DOMAIN tracker'.children :
                  tracker'.children[k] = tracker.children[k]]_vars

\* C14 witness: a stage with a child of its own has ended under a recorded
\* parent: its child list is gone and the parent has been counted up.
C14_Witness ==
    \E T \in Stages, c \in Stages :
        /\ HasItem(tracker, T) /\ HasItem(tracker, c)
        /\ tracker.items[c].parent = T
        /\ HasItem(tracker, tracker.items[T].parent)
        /\ tracker.items[tracker.items[T].parent].count >= 1
        /\ ~HasChildren(tracker, T)
        /\ handles[T] = 0

\* places (list key, position) at which id is listed as a child
Listings(tr, id) ==
    {<<k, i>> \in UNION {{k} \X (1..Len(tr.children[k])) : k \in DOMAIN tr.children} :
        tr.children[k][i] = id}

IsPrefix(a, b) == Len(a) <= Len(b) /\ SubSeq(b, 1, Len(a)) = a

\* C15: when the consumer applies BeginStage{id, name, steps} with target T, the
\* record [parent T, total steps, count 0, name] is inserted under id and id is
\* appended at the end of T's child list (a new list if T had none); every
\* other record and child list is unchanged.  On every step a child list that
\* is kept only grows at its end (so it holds its ids in the order their
\* BeginStage was applied), and no id is ever listed twice.
C15_BeginStageEffect ==
    /\ [][Applies("begin") =>
            LET T == Head(chan).target
                m == Head(chan).report
            IN /\ DOMAIN tracker'.items = DOMAIN tracker.items \cup {m.id}
               /\ tracker'.items[m.id] =
                     [parent |-> T, total |-> m.steps, count |-> 0, name |-> m.name]
               /\ \A id \in DOMAIN tracker.items \ {m.id} :
                     tracker'.items[id] = tracker.items[id]
               /\ DOMAIN tracker'.children = DOMAIN tracker.children \cup {T}
               /\ tracker'.children[T] =
                     Append(IF HasChildren(tracker, T) THEN tracker.children[T] ELSE <<>>,
                            m.id)
               /\ \A k \in DOMAIN tracker.children \ {T} :
                     tracker'.children[k] = tracker.children[k]]_vars
    /\ [][\A k \in DOMAIN tracker.children \cap DOMAIN tracker'.children :
            IsPrefix(tracker.children[k], tracker'.children[k])]_vars
    /\ [](\A id \in Stages : Cardinality(Listings(tracker, id)) <= 1)

\* C15 witness: a child list holding two stages, begun one after the other.
C15_Witness ==
    \E k \in DOMAIN tracker.children :
        /\ Len(tracker.children[k]) >= 2
        /\ \A i \in 1..Len(tracker.children[k]) :
              /\ HasItem(tracker, tracker.children[k][i])
              /\ tracker.items[tracker.children[k][i]].parent = k

\* BeginStage messages for id waiting in the channel
BeginsQueued(id) ==
    {i \in 1..Len(chan) : chan[i].report.type = "begin" /\ chan[i].report.id = id}

\* C16: a record appears only when the consumer applies the BeginStage of its
\* id, which then has no record yet; each id has at most one BeginStage on its
\* way and none once it has a record (created exactly once); a record is never
\* removed; and its parent, total and name never change.
C16_RecordLifecycle ==
    /\ [][\A id \in DOMAIN tracker.items :
            /\ HasItem(tracker', id)
            /\ tracker'.items[id].parent = tracker.items[id].parent
            /\ tracker'.items[id].total = tracker.items[id].total
            /\ tracker'.items[id].name = tracker.items[id].name]_vars
    /\ [][\A id \in DOMAIN tracker'.items \ DOMAIN tracker.items :
            Applies("begin") /\ Head(chan).report.id = id]_vars
    /\ [](\A id \in Stages :
            Cardinality(BeginsQueued(id)) <= (IF HasItem(tracker, id) THEN 0 ELSE 1))

\* C16 witness: all events are applied, and the record of a stage whose handle
\* is gone is still there, counted up since its creation.
C16_Witness ==
    /\ chan = <<>>
    /\ \E id \in DOMAIN tracker.items :
          /\ handles[id] = 0
          /\ tracker.items[id].count >= 1
    /\ Cardinality(DOMAIN tracker.items) >= 2

RECURSIVE Walk(_, _, _)
\* depth-first pre-order walk with an explicit stack of (id, level) still to
\* visit: an id without record is skipped, an id with record is put out and its
\* child list, if it is a key of the children mapping, goes on top of the stack
Walk(tr, stack, out) ==
    IF stack = <<>> THEN out
    ELSE LET top == Head(stack)
             cs == IF HasChildren(tr, top.id) THEN tr.children[top.id] ELSE <<>>
         IN IF HasItem(tr, top.id)
            THEN Walk(tr,
                      [i \in 1..Len(cs) |-> [id |-> cs[i], level |-> top.level + 1]]
                        \o Tail(stack),
                      Append(out, top))
            ELSE Walk(tr, Tail(stack), out)

PreOrder(tr) == Walk(tr, <<[id |-> PrintRoot, level |-> 0]>>, <<>>)

RECURSIVE Hops(_, _, _)
\* number of parent links from id up to the stage print starts from
Hops(tr, id, fuel) ==
    IF id = PrintRoot \/ fuel = 0 \/ ~HasItem(tr, id) THEN 0
    ELSE 1 + Hops(tr, tr.items[id].parent, fuel - 1)

C18_FinalStateRendered ==
    /\ [](cpc = "done" => frame = print(tracker))
    /\ [][(cpc # "done" /\ cpc' = "done") => cpc = "recv"]_vars

\* C19: the consumer has left its loop only when no Reporter value is alive and
\* no call of new()/stage() is in progress, so no message is ever sent after the
\* consumer has gone (send never fails); and a full channel always gets room
\* again, so a producer waiting to send is eventually served.
C19_NoSendOnClosed ==
    /\ [](cpc = "done" => (CopiesAlive = 0 /\ InCall = 0))
    /\ [][sent' = sent + 1 => (cpc # "done" /\ cpc' # "done")]_vars
    /\ (Len(chan) = ChanCap ~> Len(chan) < ChanCap)

\* C19 witness: the drop of the last Reporter value has sent its EndStage into
\* the last free slot of the channel, and the consumer is still running.
C19_Witness ==
    /\ created /\ CopiesAlive = 0 /\ InCall = 0
    /\ Len(chan) = ChanCap
    /\ chan[Len(chan)].report.type = "end"
    /\ cpc # "done"

\* stages created by stage() on the handle of S whose own handle was dropped
ChildrenDropped(S) == {c \in DOMAIN calls : calls[c].by = S /\ handles[c] = 0}

\* C20: with handles that are never cloned, whenever every sent event has been
\* applied, each stage S has a record whose count is the number of increment()
\* calls made on S's handle plus the number of stages created on S's handle
\* whose handle was dropped, and whose parent is the id of the handle stage()
\* was called on (0 for the stage of new()), whatever the interleaving was.
C20_FinalCounts ==
    chan = <<>> =>
        \A S \in DOMAIN calls :
            /\ HasItem(tracker, S)
            /\ tracker.items[S].count
                 = calls[S].incs + Cardinality(ChildrenDropped(S))
            /\ tracker.items[S].parent = calls[S].by
            /\ DOMAIN tracker.items = DOMAIN calls

\* C20 witness: every event is applied, and some stage has both increment()
\* calls of its own and a dropped child stage behind it.
C20_Witness ==
    /\ chan = <<>>
    /\ \E S \in DOMAIN calls :
          /\ calls[S].incs >= 1
          /\ ChildrenDropped(S) # {}
          /\ HasItem(tracker, S)
          /\ tracker.items[S].count >= 2

====
